---------------------------- MODULE Spec2Model ----------------------------
(***************************************************************************)
(* file_split_merge.py: split a file into fixed-size chunk files plus a    *)
(* SHA-256 sidecar, and merge the chunk files of a prefix back into one    *)
(* file, verifying it against the sidecar.                                 *)
(*                                                                         *)
(* The filesystem is the state: `fs' maps a path <<directory, name>> to    *)
(* the bytes of the file, `entries' is the order in which the directory    *)
(* entries were created (the order a listing may return them in, among     *)
(* others), `dirs' the directories that exist.  A name is the sequence of  *)
(* its character codes, so that formatting, globbing and sorting are       *)
(* computed on characters.  `ret' is the outcome of the last invocation,    *)
(* `written' what the last successful split wrote, `clock' and `edits'     *)
(* count the steps of a run.                                               *)
(*                                                                         *)
(* Names are made of letters, digits and dots.  A prefix name holding a    *)
(* glob metacharacter (asterisk, question mark, bracket) would be read as  *)
(* a pattern by the glob of merge_files; such names are outside this       *)
(* model.  The sidecar holds ASCII text: one that does not decode as text  *)
(* (read_text would raise) is outside it too.                              *)
(***************************************************************************)
EXTENDS Integers, Sequences, FiniteSets, TLC

VARIABLES fs, entries, dirs, ret, written, clock, edits

vars == <<fs, entries, dirs, ret, written, clock, edits>>

(***************************** bounds **************************************)
\* 1 << 20 in the source (line 39); the unit is scaled down so that a file of
\* a few bytes spans several chunks.
MiB == 2
\* Longest input file of the small model, in bytes.
MaxLen == 5
\* Largest chunk_size_mb argument.
MaxMb == 2
\* Invocations and outside edits in one run.
MaxOps == 3
\* Outside edits (of a chunk, the sidecar or the input) in one run.
MaxEnv == 1
\* A listing of at most this many chunk files is tried in every order.
MaxPerm == 3

(************************** characters and names ***************************)
CHUNK_SUFFIX_LEN == 3

Min(a, b) == IF a < b THEN a ELSE b

\* The two byte values of file contents (0xAB, 0xCD).
Byte == {171, 205}

DOT == <<46>>
SHA256_SUFFIX == <<46, 115, 104, 97, 50, 53, 54>>    \* ".sha256"
NameA == <<97>>                                      \* "a"
NameB == <<98>>                                      \* "b"
NameM == <<109>>                                     \* "m"

IsDigit(c) == c >= 48 /\ c <= 57

\* str(idx) for idx >= 0: the decimal digits, most significant first.
RECURSIVE DecimalDigits(_)
DecimalDigits(n) ==
    IF n < 10 THEN <<48 + n>>
    ELSE Append(DecimalDigits(n \div 10), 48 + (n % 10))

\* Faulty ZeroPad: the digits without the padding.
ZeroPadNone(n, width) == DecimalDigits(n)

\* f"{n:0{width}d}": zero-padded on the left to at least `width' characters.
ZeroPad(n, width) ==
    LET d == DecimalDigits(n)
    IN  IF Len(d) >= width THEN d
        ELSE [i \in 1..(width - Len(d)) |-> 48] \o d

\* f"{input_path.name}.{idx:0{CHUNK_SUFFIX_LEN}d}"
part_name(name, idx) == name \o DOT \o ZeroPad(idx, CHUNK_SUFFIX_LEN)

\* f"{name}.sha256"
sha_name(name) == name \o SHA256_SUFFIX

Path(dir, name) == <<dir, name>>
parent(p) == p[1]
name_of(p) == p[2]

\* output_path = None
None == <<>>

\* glob(f"{prefix_name}.[0-9][0-9][0-9]") on one name: the prefix, a dot and
\* exactly CHUNK_SUFFIX_LEN digits.
GlobMatch(prefix_name, n) ==
    /\ Len(n) = Len(prefix_name) + 1 + CHUNK_SUFFIX_LEN
    /\ SubSeq(n, 1, Len(prefix_name) + 1) = prefix_name \o DOT
    /\ \A i \in (Len(prefix_name) + 2)..Len(n) : IsDigit(n[i])

\* Path.__lt__ for two paths of one directory: the names compared character
\* by character, a proper prefix first.
RECURSIVE NameLess(_, _)
NameLess(a, b) ==
    IF a = <<>> THEN b # <<>>
    ELSE IF b = <<>> THEN FALSE
    ELSE IF Head(a) # Head(b) THEN Head(a) < Head(b)
    ELSE NameLess(Tail(a), Tail(b))

\* The paths a glob returns share their directory: the names decide.
PathLess(p, q) == NameLess(name_of(p), name_of(q))

\* Faulty sorted: the listing as the filesystem returned it.
sortedNot(listing) == listing

\* sorted(listing): ascending and stable.  Element k goes to the place given
\* by the number of elements that come before it.
sorted(listing) ==
    LET n  == Len(listing)
        rk == [k \in 1..n |->
                 1 + Cardinality({j \in 1..n :
                        \/ PathLess(listing[j], listing[k])
                        \/ (~PathLess(listing[k], listing[j]) /\ j < k)})] \o <<>>
        at == [i \in 1..n |-> CHOOSE k \in 1..n : rk[k] = i] \o <<>>
    IN  [i \in 1..n |-> listing[at[i]]] \o <<>>

(******************************* digest ************************************)
HexChar(n) == IF n < 10 THEN 48 + n ELSE 87 + n      \* lowercase, as hexdigest

\* Faulty sha256sum: a digest of the length alone.
sha256sumOfLength(data) ==
    <<HexChar((Len(data) \div 16) % 16), HexChar(Len(data) % 16)>>

\* sha256sum(path) on a file holding `data'.  The buffers read are fed to the
\* hash in order, which hashes their concatenation, the file's bytes.  SHA-256
\* is taken as collision-free: the digest is an injective lowercase-hex
\* encoding of the length (mod 256) and the bytes.
sha256sum(data) ==
    LET h == <<Len(data) % 256>> \o data
    IN  [i \in 1..(2 * Len(h)) |->
           IF i % 2 = 1 THEN HexChar(h[(i + 1) \div 2] \div 16)
           ELSE HexChar(h[i \div 2] % 16)]

\* The characters str.strip() removes, among the ASCII ones.
Whitespace == {9, 10, 11, 12, 13, 28, 29, 30, 31, 32}

RECURSIVE lstrip(_)
lstrip(s) == IF s # <<>> /\ Head(s) \in Whitespace THEN lstrip(Tail(s)) ELSE s

RECURSIVE rstrip(_)
rstrip(s) ==
    IF s # <<>> /\ s[Len(s)] \in Whitespace THEN rstrip(SubSeq(s, 1, Len(s) - 1))
    ELSE s

\* Faulty strip: nothing removed.
stripNot(s) == s

\* str.strip()
strip(s) == rstrip(lstrip(s))

\* str.upper() on ASCII
upper(s) == [i \in 1..Len(s) |-> IF s[i] >= 97 /\ s[i] <= 122 THEN s[i] - 32 ELSE s[i]]

(***************************** the filesystem ******************************)
\* Every byte string of at most MaxLen bytes.
Contents == UNION {[1..n -> Byte] : n \in 0..MaxLen}

InputA == Path("in", NameA)
InputB == Path("in", NameB)

is_file(p) == p \in DOMAIN fs
is_dir(d) == d \in dirs

NoRet == [op |-> "init", args |-> <<>>, exc |-> "none", value |-> <<>>,
          report |-> "none", shuffled |-> FALSE, merged |-> <<>>]

NoSplit == [prefix |-> None, chunks |-> <<>>, files |-> <<>>]

Init ==
    /\ \E data \in Contents : fs = (InputA :> data)
    /\ entries = <<InputA>>
    /\ dirs = {"in"}
    /\ ret = NoRet
    /\ written = NoSplit
    /\ clock = 0
    /\ edits = 0

\* An invocation of the program.
Tick == clock < MaxOps /\ clock' = clock + 1 /\ UNCHANGED edits

\* An edit from outside.
EnvTick ==
    /\ clock < MaxOps /\ clock' = clock + 1
    /\ edits < MaxEnv /\ edits' = edits + 1

\* The files of `paths[lo..hi]' written in index order, a later write of a
\* path standing over an earlier one.
RECURSIVE Writes(_, _, _, _)
Writes(paths, datas, lo, hi) ==
    IF lo = hi THEN paths[lo] :> datas[lo]
    ELSE LET mid == (lo + hi) \div 2
         IN  Writes(paths, datas, mid + 1, hi) @@ Writes(paths, datas, lo, mid)

\* The entries of `paths' that `files' does not hold yet, appended to the
\* directory order.
Created(order, files, paths) ==
    order \o SelectSeq(paths \o <<>>, LAMBDA p : p \notin DOMAIN files)

(******************************* split_file ********************************)
\* Faulty total_parts: the quotient rounded down.
total_parts_floor(total_size, chunk_size) == total_size \div chunk_size

\* Faulty total_parts: an empty input gets one empty chunk.
total_parts_one(total_size, chunk_size) ==
    IF total_size = 0 THEN 1 ELSE (total_size + chunk_size - 1) \div chunk_size

\* math.ceil(total_size / chunk_size) for chunk_size > 0.  The quotient is a
\* float in the source, exact for the sizes below 2^53 considered here.
total_parts(total_size, chunk_size) == (total_size + chunk_size - 1) \div chunk_size

\* src.read(chunk_size) of iteration idx (from 0): the reads are sequential,
\* every earlier one took chunk_size bytes or reached the end.
read_chunk(data, chunk_size, idx) ==
    SubSeq(data, Min(idx * chunk_size, Len(data)) + 1,
                 Min((idx + 1) * chunk_size, Len(data)))

split_file(input_path, chunk_size_mb, output_dir) ==
    /\ Tick
    /\ IF ~is_file(input_path) THEN
           /\ ret' = [NoRet EXCEPT !.op = "split",
                          !.args = <<input_path, chunk_size_mb, output_dir>>,
                          !.exc = "FileNotFoundError"]
           /\ UNCHANGED <<fs, entries, dirs, written>>
       ELSE IF chunk_size_mb = 0 THEN
           \* output_dir.mkdir(), then the division by zero
           /\ dirs' = dirs \cup {output_dir}
           /\ ret' = [NoRet EXCEPT !.op = "split",
                          !.args = <<input_path, chunk_size_mb, output_dir>>,
                          !.exc = "ZeroDivisionError"]
           /\ UNCHANGED <<fs, entries, written>>
       ELSE
           LET chunk_size == chunk_size_mb * MiB
               data == fs[input_path]
               total_size == Len(data)
               n == total_parts(total_size, chunk_size)
               chunk_paths == [i \in 1..n |->
                    Path(output_dir, part_name(name_of(input_path), i - 1))] \o <<>>
               datas == [i \in 1..n |-> read_chunk(data, chunk_size, i - 1)]
               parts == IF n = 0 THEN <<>> ELSE Writes(chunk_paths, datas, 1, n)
               fs1 == IF n = 0 THEN fs ELSE parts @@ fs
               sha_path == Path(output_dir, sha_name(name_of(input_path)))
               sha == sha_path :> sha256sum(fs1[input_path])
           IN  /\ dirs' = dirs \cup {output_dir}
               /\ fs' = sha @@ fs1
               /\ entries' = Created(Created(entries, fs, chunk_paths), fs1, <<sha_path>>)
               /\ ret' = [NoRet EXCEPT !.op = "split",
                              !.args = <<input_path, chunk_size_mb, output_dir>>,
                              !.value = chunk_paths]
               /\ written' = [prefix |-> Path(output_dir, name_of(input_path)),
                              chunks |-> chunk_paths,
                              files |-> IF n = 0 THEN sha ELSE sha @@ parts]

(******************************* merge_files *******************************)
\* chunk_prefix.parent.glob(pattern): the matching entries of the directory,
\* here in the order they were created in.
glob(dir, prefix_name) ==
    SelectSeq(entries, LAMBDA p : parent(p) = dir /\ GlobMatch(prefix_name, name_of(p)))

Reverse(s) == [i \in 1..Len(s) |-> s[Len(s) + 1 - i]]

\* The orders a listing may return the matching files in: every order for a
\* short listing, the order of creation and its reverse for a long one.
Listings(g) ==
    IF Len(g) <= MaxPerm
    THEN {[i \in 1..Len(g) |-> g[f[i]]] :
            f \in {h \in [1..Len(g) -> 1..Len(g)] :
                     \A i, j \in 1..Len(g) : h[i] = h[j] => i = j}}
    ELSE {g, Reverse(g)}

\* The bytes of `paths[lo..hi]' in `files', one after the other.
RECURSIVE Concat(_, _, _, _)
Concat(files, paths, lo, hi) ==
    IF lo > hi THEN <<>>
    ELSE IF lo = hi THEN files[paths[lo]]
    ELSE LET mid == (lo + hi) \div 2
         IN  Concat(files, paths, lo, mid) \o Concat(files, paths, mid + 1, hi)

\* Faulty no_chunks: the check left out.
no_chunks_unchecked(chunks) == FALSE

\* if not chunks
no_chunks(chunks) == chunks = <<>>

\* Faulty default_output: the first chunk's path when none is given.
default_output_first(chunk_prefix, output_path) ==
    IF output_path # None THEN output_path
    ELSE Path(parent(chunk_prefix), part_name(name_of(chunk_prefix), 0))

\* output_path or chunk_prefix.parent / chunk_prefix.name
default_output(chunk_prefix, output_path) ==
    IF output_path # None THEN output_path
    ELSE Path(parent(chunk_prefix), name_of(chunk_prefix))

\* Faulty sha_exists: the sidecar taken to be there.
sha_exists_always(files, sha_file) == TRUE

\* sha_file.exists()
sha_exists(files, sha_file) == sha_file \in DOMAIN files

\* Faulty hash_equal: the digests compared without regard to case.
hash_equal_nocase(merged_hash, orig_hash) == upper(merged_hash) = upper(orig_hash)

\* merged_hash == orig_hash
hash_equal(merged_hash, orig_hash) == merged_hash = orig_hash

\* The place of `out' among the chunks, 0 when it is none of them.
PlaceOf(chunks, out) ==
    IF \E k \in 1..Len(chunks) : chunks[k] = out
    THEN CHOOSE k \in 1..Len(chunks) : chunks[k] = out
    ELSE 0

merge_files(chunk_prefix, output_path) ==
    /\ Tick
    /\ UNCHANGED <<dirs, written>>
    /\ IF ~is_dir(parent(chunk_prefix)) THEN
           /\ ret' = [NoRet EXCEPT !.op = "merge",
                          !.args = <<chunk_prefix, output_path>>,
                          !.exc = "FileNotFoundError"]
           /\ UNCHANGED <<fs, entries>>
       ELSE
           \E listing \in Listings(glob(parent(chunk_prefix), name_of(chunk_prefix))) :
           \E chunks \in {sorted(listing)} :
             IF no_chunks(chunks) THEN
                /\ ret' = [NoRet EXCEPT !.op = "merge",
                               !.args = <<chunk_prefix, output_path>>,
                               !.exc = "FileNotFoundError",
                               !.shuffled = (listing # chunks)]
                /\ UNCHANGED <<fs, entries>>
             ELSE
                LET out == default_output(chunk_prefix, output_path)
                    n == Len(chunks)
                    \* A chunk that is the output file itself is read while the
                    \* output is being written: it holds what has reached the
                    \* file of the bytes written before it.
                    k == PlaceOf(chunks, out)
                    before == Concat(fs, chunks, 1, k - 1)
                IN  \E flushed \in 0..(IF k = 0 THEN 0 ELSE Len(before)) :
                    \E merged \in {IF k = 0 THEN Concat(fs, chunks, 1, n)
                                    ELSE before \o SubSeq(before, 1, flushed)
                                                \o Concat(fs, chunks, k + 1, n)} :
                    \E fs1 \in {(out :> merged) @@ fs} :
                      LET sha_file == Path(parent(chunk_prefix),
                                           sha_name(name_of(chunk_prefix)))
                      IN  /\ fs' = fs1
                          /\ entries' = Created(entries, fs, <<out>>)
                          /\ IF sha_exists(fs1, sha_file) THEN
                                 IF sha_file \notin DOMAIN fs1 THEN
                                    \* sha_file.read_text() of a missing file
                                    ret' = [NoRet EXCEPT !.op = "merge",
                                               !.args = <<chunk_prefix, output_path>>,
                                               !.exc = "FileNotFoundError",
                                               !.shuffled = (listing # chunks),
                                               !.merged = chunks]
                                 ELSE
                                    LET orig_hash == strip(fs1[sha_file])
                                        merged_hash == sha256sum(fs1[out])
                                    IN  ret' = [NoRet EXCEPT !.op = "merge",
                                                   !.args = <<chunk_prefix, output_path>>,
                                                   !.value = out,
                                                   !.report =
                                                      IF hash_equal(merged_hash, orig_hash)
                                                      THEN "match" ELSE "mismatch",
                                                   !.shuffled = (listing # chunks),
                                                   !.merged = chunks]
                              ELSE
                                 ret' = [NoRet EXCEPT !.op = "merge",
                                            !.args = <<chunk_prefix, output_path>>,
                                            !.value = out,
                                            !.shuffled = (listing # chunks),
                                            !.merged = chunks]

(**************************** outside edits ********************************)
\* The files other programs may change between invocations: a chunk's bytes,
\* the sidecar's text, the input file.
IsChunk(p) == GlobMatch(NameA, name_of(p)) \/ GlobMatch(NameB, name_of(p))
IsSidecar(p) == name_of(p) = sha_name(NameA) \/ name_of(p) = sha_name(NameB)

EnvRet(what, p) == [NoRet EXCEPT !.op = what, !.args = <<p>>]

\* One byte of one chunk file is altered.
TamperChunk(p, i, b) ==
    /\ EnvTick
    /\ is_file(p) /\ IsChunk(p)
    /\ i \in 1..Len(fs[p]) /\ b # fs[p][i]
    /\ fs' = [fs EXCEPT ![p][i] = b]
    /\ ret' = EnvRet("tamper", p)
    /\ UNCHANGED <<entries, dirs, written>>

\* The sidecar's digest is rewritten in uppercase, or with whitespace around it.
RewriteSidecar(p, how) ==
    /\ EnvTick
    /\ is_file(p) /\ IsSidecar(p)
    /\ fs' = [fs EXCEPT ![p] = IF how = "upper" THEN upper(@)
                                ELSE <<32>> \o @ \o <<13, 10>>]
    /\ ret' = EnvRet(how, p)
    /\ UNCHANGED <<entries, dirs, written>>

\* The sidecar is deleted.
RemoveSidecar(p) ==
    /\ EnvTick
    /\ is_file(p) /\ IsSidecar(p)
    /\ fs' = [q \in DOMAIN fs \ {p} |-> fs[q]]
    /\ entries' = SelectSeq(entries, LAMBDA q : q # p)
    /\ ret' = EnvRet("remove", p)
    /\ UNCHANGED <<dirs, written>>

\* The input file loses its last byte or gains a byte.
EditInput(data) ==
    /\ EnvTick
    /\ \/ data = SubSeq(fs[InputA], 1, Len(fs[InputA]) - 1) /\ fs[InputA] # <<>>
       \/ SubSeq(data, 1, Len(data) - 1) = fs[InputA] /\ data # <<>>
    /\ fs' = [fs EXCEPT ![InputA] = data]
    /\ ret' = EnvRet("edit", InputA)
    /\ UNCHANGED <<entries, dirs, written>>

(***************************** specification *******************************)
OutputDirs == {"out"}
\* merge <chunk_prefix> [output_file]: the prefix of the split input with no
\* output, a fresh output or the second chunk's path; a prefix with no chunks.
MergeArgs ==
    {<<Path("out", NameA), o>> :
        o \in {None, Path("out", NameM), Path("out", part_name(NameA, 1))}}
    \cup {<<Path("out", NameB), None>>}

\* split <input_file> <chunk_size_mb> <output_dir>: the input with every size
\* (0 included, which argparse lets through), and an input that is no file.
SplitArgs ==
    {<<InputA, mb, d>> : mb \in 0..MaxMb, d \in OutputDirs}
    \cup {<<InputB, 1, d>> : d \in OutputDirs}

Next ==
    \/ \E a \in SplitArgs : split_file(a[1], a[2], a[3])
    \/ \E a \in MergeArgs : merge_files(a[1], a[2])
    \/ \E p \in DOMAIN fs, i \in 1..(MaxMb * MiB), b \in Byte : TamperChunk(p, i, b)
    \/ \E p \in DOMAIN fs, how \in {"upper", "pad"} : RewriteSidecar(p, how)
    \/ \E p \in DOMAIN fs : RemoveSidecar(p)
    \/ \E data \in Contents : EditInput(data)

Spec == Init /\ [][Next]_vars

(********************* the cap on the number of chunks *********************)
\* The chunk indices CHUNK_SUFFIX_LEN digits can name: 10^CHUNK_SUFFIX_LEN.
RECURSIVE Pow10(_)
Pow10(k) == IF k = 0 THEN 1 ELSE 10 * Pow10(k - 1)

MaxChunks == Pow10(CHUNK_SUFFIX_LEN)

\* Inputs of 0..CapSmall chunks, and of MaxChunks .. MaxChunks + CapOver.
CapSmall == 20
CapOver == 1
\* Invocations in one run of the cap's specification.
CapOps == 2

CapCounts == (0..CapSmall) \cup (MaxChunks..(MaxChunks + CapOver))

CapData(n) == [i \in 1..(n * MiB) |-> IF i % 3 = 0 THEN 205 ELSE 171]

InitCap ==
    /\ \E n \in CapCounts : fs = (InputA :> CapData(n))
    /\ entries = <<InputA>>
    /\ dirs = {"in"}
    /\ ret = NoRet
    /\ written = NoSplit
    /\ clock = 0
    /\ edits = 0

NextCap ==
    \/ clock < CapOps /\ split_file(InputA, 1, "out")
    \/ clock < CapOps /\ merge_files(Path("out", NameA), None)

SpecCap == InitCap /\ [][NextCap]_vars

(******************************* properties ********************************)
Range(s) == {s[i] : i \in 1..Len(s)}

\* The number the last CHUNK_SUFFIX_LEN characters of a chunk's name spell.
RECURSIVE DecimalValue(_)
DecimalValue(d) ==
    IF d = <<>> THEN 0
    ELSE 10 * DecimalValue(SubSeq(d, 1, Len(d) - 1)) + (d[Len(d)] - 48)

Index(p) ==
    DecimalValue(SubSeq(name_of(p), Len(name_of(p)) - CHUNK_SUFFIX_LEN + 1,
                        Len(name_of(p))))

\* The files of the prefix's directory named <prefix name>.<3 digits>.
MatchingIn(files, chunk_prefix) ==
    {p \in DOMAIN files : /\ parent(p) = parent(chunk_prefix)
                          /\ GlobMatch(name_of(chunk_prefix), name_of(p))}

Matching(chunk_prefix) == MatchingIn(fs, chunk_prefix)

SidecarOf(chunk_prefix) == Path(parent(chunk_prefix), sha_name(name_of(chunk_prefix)))

\* The path a merge with these arguments writes: the one given, else the prefix.
ExpectedOut(args) == IF args[2] # None THEN args[2] ELSE args[1]

\* The chunks of `g' by ascending index.
ByIndex(g) ==
    [i \in 1..Cardinality(g) |->
        CHOOSE p \in g : Cardinality({q \in g : Index(q) < Index(p)}) = i - 1]

\* s without its leading and trailing whitespace, by the places of its first
\* and last other character.
Trimmed(s) ==
    LET ink == {i \in 1..Len(s) : s[i] \notin Whitespace}
    IN  IF ink = {} THEN <<>>
        ELSE SubSeq(s, CHOOSE i \in ink : \A j \in ink : i <= j,
                       CHOOSE i \in ink : \A j \in ink : j <= i)

\* The smallest n with n * chunk_size >= total_size.
CeilDiv(total_size, chunk_size) ==
    CHOOSE n \in 0..total_size :
        /\ n * chunk_size >= total_size
        /\ n = 0 \/ (n - 1) * chunk_size < total_size

\* The chunk files of the prefix are the ones the last split wrote, each with
\* the bytes it wrote, and there is at least one.
ChunksAsWritten(chunk_prefix) ==
    /\ written.prefix = chunk_prefix
    /\ written.chunks # <<>>
    /\ Matching(chunk_prefix) = Range(written.chunks)
    /\ \A p \in Range(written.chunks) : fs[p] = written.files[p]

\* As ChunksAsWritten, but for one byte of one chunk, which differs.
OneByteAltered(chunk_prefix) ==
    /\ written.prefix = chunk_prefix
    /\ Matching(chunk_prefix) = Range(written.chunks)
    /\ \E p \in Range(written.chunks) :
         /\ Len(fs[p]) = Len(written.files[p])
         /\ Cardinality({i \in 1..Len(fs[p]) : fs[p][i] # written.files[p][i]}) = 1
         /\ \A q \in Range(written.chunks) \ {p} : fs[q] = written.files[q]

\* The sidecar of the prefix is there, with the text the last split wrote.
SidecarAsWritten(chunk_prefix) ==
    /\ written.prefix = chunk_prefix
    /\ SidecarOf(chunk_prefix) \in DOMAIN fs
    /\ fs[SidecarOf(chunk_prefix)] = written.files[SidecarOf(chunk_prefix)]

SplitDone == ret'.op = "split" /\ ret'.exc = "none"
MergeStep == ret'.op = "merge"

\* C1: a split of any input file with a positive chunk size, followed by a
\* merge on the prefix <output_dir>/<input name>, leaves an output file with
\* the bytes of the input.
C1_RoundTrip ==
    [][(/\ ret.op = "split" /\ ret.exc = "none"
        /\ MergeStep
        /\ ret'.args[1] = Path(ret.args[3], name_of(ret.args[1])))
       => (/\ ret'.exc = "none"
           /\ fs'[ret'.value] = fs[ret.args[1]])]_vars

\* C2: a split of T bytes with a chunk size of S bytes returns ceil(T / S)
\* chunk paths in ascending index order and creates those files and no other
\* chunk file; every chunk has S bytes but the last, which has T mod S bytes,
\* or S when S divides T.
C2_ChunkCountAndSizes ==
    [][SplitDone =>
        LET input == ret'.args[1]
            S == ret'.args[2] * MiB
            T == Len(fs[input])
            v == ret'.value
            n == CeilDiv(T, S)
        IN  /\ Len(v) = n
            /\ \A i \in 1..n :
                 /\ v[i] = Path(ret'.args[3], name_of(input) \o DOT
                                \o SubSeq(name_of(v[i]), Len(name_of(input)) + 2,
                                          Len(name_of(v[i]))))
                 /\ GlobMatch(name_of(input), name_of(v[i]))
                 /\ Index(v[i]) = i - 1
                 /\ v[i] \in DOMAIN fs'
                 /\ Len(fs'[v[i]]) = IF i < n \/ T % S = 0 THEN S ELSE T % S
            /\ (DOMAIN fs' \ DOMAIN fs) \subseteq
                  (Range(v) \cup {SidecarOf(Path(ret'.args[3], name_of(input)))})]_vars

C2_Witness ==
    /\ ret.op = "split" /\ ret.exc = "none"
    /\ Len(ret.value) = 3
    /\ Len(fs[ret.value[1]]) = MiB
    /\ Len(fs[ret.value[3]]) = 1

\* C3: a merge over the chunk files the split wrote, unmodified, with the
\* sidecar it wrote, unmodified, reports a match; with one byte of one of the
\* chunks altered it reports a mismatch.
C3_Verification ==
    [][(MergeStep /\ SidecarAsWritten(ret'.args[1])
                  /\ ExpectedOut(ret'.args) \notin Range(written.chunks))
       => /\ ChunksAsWritten(ret'.args[1]) => ret'.report = "match"
          /\ OneByteAltered(ret'.args[1]) => ret'.report = "mismatch"]_vars

C3_Witness ==
    /\ ret.op = "merge" /\ ret.report = "mismatch"
    /\ SidecarAsWritten(ret.args[1])
    /\ OneByteAltered(ret.args[1])
    /\ Len(written.chunks) >= 2

\* C4: whatever order the listing returns the chunk files in, a merge appends
\* each of them once, in strictly ascending numeric index order.
C4_AscendingIndexOrder ==
    [][(MergeStep /\ ret'.exc = "none") =>
        LET g == Matching(ret'.args[1])
            m == ret'.merged
        IN  /\ Len(m) = Cardinality(g)
            /\ Range(m) = g
            /\ \A i, j \in 1..Len(m) : i < j => Index(m[i]) < Index(m[j])
            /\ ExpectedOut(ret'.args) \notin g =>
                 fs'[ExpectedOut(ret'.args)] =
                    Concat(fs, ByIndex(g), 1, Cardinality(g))]_vars

C4_Witness ==
    /\ ret.op = "merge" /\ ret.exc = "none"
    /\ ret.shuffled
    /\ Len(ret.merged) >= 3

\* C5: a merge on a prefix no file of whose directory matches
\* <prefix name>.<3 digits> fails with FileNotFoundError and writes nothing:
\* no file is created, truncated or changed.
C5_NoChunksNoWrite ==
    [][(MergeStep /\ Matching(ret'.args[1]) = {})
       => /\ ret'.exc = "FileNotFoundError"
          /\ fs' = fs /\ entries' = entries /\ dirs' = dirs]_vars

C5_Witness ==
    /\ ret.op = "merge" /\ ret.exc = "FileNotFoundError"
    /\ ret.args[1] = Path("out", NameB)
    /\ Matching(Path("out", NameA)) # {}

\* C6: a merge that finds chunks returns its output path and leaves the
\* merged file there whether the sidecar matches, mismatches or is absent; a
\* result of the verification is reported exactly when the sidecar is there.
C6_VerificationKeepsResult ==
    [][(MergeStep /\ is_dir(parent(ret'.args[1])) /\ Matching(ret'.args[1]) # {})
       => LET out == ExpectedOut(ret'.args)
              sha_file == SidecarOf(ret'.args[1])
          IN  /\ ret'.exc = "none"
              /\ ret'.value = out
              /\ out \in DOMAIN fs'
              /\ out \notin Matching(ret'.args[1]) =>
                   fs'[out] = Concat(fs, ret'.merged, 1, Len(ret'.merged))
              /\ \A p \in DOMAIN fs : p \in DOMAIN fs'
              /\ ret'.report = "none" <=> sha_file \notin (DOMAIN fs \cup {out})
              /\ ret'.report \in {"none", "match", "mismatch"}]_vars

C6_Witness ==
    /\ ret.op = "merge" /\ ret.exc = "none"
    /\ ret.report = "mismatch"
    /\ ret.value \in DOMAIN fs
    /\ fs[ret.value] # <<>>

\* C7 as claimed: a sidecar holding the digest of the merged file in
\* uppercase, or with whitespace around it, is reported as a match.
C7_CaseInsensitiveMatch ==
    [][(MergeStep /\ ret'.exc = "none" /\ SidecarOf(ret'.args[1]) \in DOMAIN fs
                  /\ SidecarOf(ret'.args[1]) # ExpectedOut(ret'.args)
                  /\ upper(Trimmed(fs[SidecarOf(ret'.args[1])])) =
                        upper(sha256sum(fs'[ExpectedOut(ret'.args)])))
       => ret'.report = "match"]_vars

\* C7 as amended: the comparison is exact string equality of the hex digest
\* of the merged file with the sidecar's text trimmed of surrounding
\* whitespace: the digest with whitespace around it is a match, the digest in
\* uppercase (or any other text) is a mismatch.
C7_ExactMatchOfTrimmed ==
    [][(MergeStep /\ ret'.exc = "none" /\ SidecarOf(ret'.args[1]) \in DOMAIN fs
                  /\ SidecarOf(ret'.args[1]) # ExpectedOut(ret'.args))
       => (ret'.report = "match" <=>
             Trimmed(fs[SidecarOf(ret'.args[1])]) =
                sha256sum(fs'[ExpectedOut(ret'.args)]))]_vars

C7_Witness ==
    /\ ret.op = "merge" /\ ret.report = "match"
    /\ written.prefix = ret.args[1]
    /\ fs[SidecarOf(ret.args[1])] # written.files[SidecarOf(ret.args[1])]
    /\ Trimmed(fs[SidecarOf(ret.args[1])]) = written.files[SidecarOf(ret.args[1])]

\* C8 as claimed: no split or merge changes or removes a chunk file or a
\* sidecar that a split wrote before.
C8_NeverMutated ==
    [][(ret'.op \in {"split", "merge"})
       => \A p \in DOMAIN written.files :
             p \in DOMAIN fs => (p \in DOMAIN fs' /\ fs'[p] = fs[p])]_vars

\* C8 as amended: no split or merge removes a file; a merge changes no file
\* but its output path; a split changes no file but the chunk paths it
\* returns and the sidecar of its input's name in its output directory.
C8_OnlyOwnPathsWritten ==
    [][(ret'.op \in {"split", "merge"})
       => \A p \in DOMAIN fs :
            /\ p \in DOMAIN fs'
            /\ fs'[p] # fs[p] =>
                 IF ret'.op = "merge" THEN p = ExpectedOut(ret'.args)
                 ELSE \/ p = SidecarOf(Path(ret'.args[3], name_of(ret'.args[1])))
                      \/ /\ parent(p) = ret'.args[3]
                         /\ GlobMatch(name_of(ret'.args[1]), name_of(p))
                         /\ Index(p) < CeilDiv(Len(fs[ret'.args[1]]),
                                               ret'.args[2] * MiB)]_vars

C8_Witness ==
    /\ ret.op = "merge" /\ ret.exc = "none"
    /\ ret.args[2] = None
    /\ Len(written.chunks) >= 2
    /\ \A p \in DOMAIN written.files : p \in DOMAIN fs /\ fs[p] = written.files[p]

\* C9: a split of an empty file returns no chunk path and creates no chunk
\* file, and writes the sidecar with the digest of the empty input; a merge on
\* that prefix right after it, in a directory no earlier split left a chunk
\* in, fails with FileNotFoundError and creates no output file.
C9_EmptyInput ==
    [][/\ (SplitDone /\ fs[ret'.args[1]] = <<>>) =>
            LET sha_file == SidecarOf(Path(ret'.args[3], name_of(ret'.args[1])))
            IN  /\ ret'.value = <<>>
                /\ DOMAIN fs' = DOMAIN fs \cup {sha_file}
                /\ \A p \in DOMAIN fs \ {sha_file} : fs'[p] = fs[p]
                /\ fs'[sha_file] = sha256sum(<<>>)
                /\ MatchingIn(fs', Path(ret'.args[3], name_of(ret'.args[1]))) =
                      MatchingIn(fs, Path(ret'.args[3], name_of(ret'.args[1])))
       /\ (/\ ret.op = "split" /\ ret.exc = "none" /\ fs[ret.args[1]] = <<>>
           /\ MergeStep
           /\ ret'.args[1] = Path(ret.args[3], name_of(ret.args[1]))
           /\ Matching(ret'.args[1]) = {})
          => /\ ret'.exc = "FileNotFoundError"
             /\ fs' = fs]_vars

C9_Witness ==
    /\ ret.op = "merge" /\ ret.exc = "FileNotFoundError"
    /\ ret.args[1] = Path("out", NameA)
    /\ fs[InputA] = <<>>
    /\ SidecarOf(Path("out", NameA)) \in DOMAIN fs
    /\ fs[SidecarOf(Path("out", NameA))] = sha256sum(<<>>)
    /\ Path("out", NameA) \notin DOMAIN fs

=============================================================================
